---- MODULE Spec2Model ----
(***************************************************************************)
(* Model of ResNet_mean_with_fast.py: construction of the two-stream       *)
(* quality network (ResNet.__init__, _make_layer, the block constructors), *)
(* the exported factory functions with their pretrained-weight load, and   *)
(* the forward pass at the level of tensor shapes, persistent buffers and  *)
(* the provenance of every per-frame score.                                *)
(***************************************************************************)
EXTENDS Integers, Sequences, FiniteSets, TLC

\* ---------------------------------------------------------------- bounds
MaxBlocks == 2      \* largest block count in a layers list given to ResNet(...)
MaxB == 2           \* largest batch size of a forward call
MaxT == 2           \* largest number of frames per clip
MaxH == 64          \* largest frame side enumerated exhaustively
MaxMode == 2        \* mode_idx ranges over 0..MaxMode
MaxTracked == 4     \* cap on bn1.num_batches_tracked

\* ------------------------------------------------------ block constructors
\* BasicBlock.expansion / Bottleneck.expansion
expansion(block) == IF block = "Bottleneck" THEN 4 ELSE 1

\* BasicBlock.__init__ as it would be without the base_width half of its first
\* check.
BasicBlockGroupsOnly(groups, base_width, dilation) ==
    IF groups # 1 THEN "ValueError"
    ELSE IF dilation > 1 THEN "NotImplementedError"
    ELSE "ok"

\* BasicBlock.__init__: the two configuration checks, in source order.
BasicBlock(groups, base_width, dilation) ==
    IF groups # 1 \/ base_width # 64 THEN "ValueError"
    ELSE IF dilation > 1 THEN "NotImplementedError"
    ELSE "ok"

\* Bottleneck.__init__ accepts every groups / base_width / dilation.
Bottleneck(groups, base_width, dilation) == "ok"

\* block(...) as called from _make_layer
NewBlock(block, groups, base_width, dilation) ==
    IF block = "BasicBlock" THEN BasicBlock(groups, base_width, dilation)
    ELSE Bottleneck(groups, base_width, dilation)

\* _make_layer as it would be if the first block were given self.dilation after
\* the update instead of previous_dilation.
_make_layerNoPrevious(self, block, planes, blocks, stride0, dilate) ==
    LET dilation1 == IF dilate THEN self.dilation * stride0 ELSE self.dilation
        stride    == IF dilate THEN 1 ELSE stride0
        first     == NewBlock(block, self.groups, self.base_width, dilation1)
        rest      == IF blocks >= 2
                     THEN NewBlock(block, self.groups, self.base_width, dilation1)
                     ELSE "ok"
        err       == IF first # "ok" THEN first ELSE rest
    IN  [err |-> err,
         self |-> [self EXCEPT !.inplanes = planes * expansion(block),
                               !.dilation = dilation1],
         channels |-> planes * expansion(block),
         stride |-> stride]

\* ResNet._make_layer.  self = [inplanes, dilation, groups, base_width];
\* returns the updated self fields, the outcome, and the shape effect of the
\* stage (output channels, effective stride).
_make_layer(self, block, planes, blocks, stride0, dilate) ==
    LET previous_dilation == self.dilation
        dilation1 == IF dilate THEN self.dilation * stride0 ELSE self.dilation
        stride    == IF dilate THEN 1 ELSE stride0
        first     == NewBlock(block, self.groups, self.base_width, previous_dilation)
        rest      == IF blocks >= 2
                     THEN NewBlock(block, self.groups, self.base_width, dilation1)
                     ELSE "ok"
        err       == IF first # "ok" THEN first ELSE rest
    IN  [err |-> err,
         self |-> [self EXCEPT !.inplanes = planes * expansion(block),
                               !.dilation = dilation1],
         channels |-> planes * expansion(block),
         stride |-> stride]

\* --------------------------------------------------- ResNet.__init__
\* The gates as they would be if each kept its input's channel count.
convgruSameChannels ==
    << [input_size |-> 128, input_dim |-> 64,  hidden_dim |-> 64],
       [input_size |-> 64,  input_dim |-> 128, hidden_dim |-> 128],
       [input_size |-> 32,  input_dim |-> 256, hidden_dim |-> 256],
       [input_size |-> 16,  input_dim |-> 512, hidden_dim |-> 512] >>

\* Gate (ConvGRU) configuration written in ResNet.__init__, one entry per stage:
\* input_size (height = width), input_dim, hidden_dim.
convgru == << [input_size |-> 128, input_dim |-> 64,  hidden_dim |-> 32],
              [input_size |-> 64,  input_dim |-> 128, hidden_dim |-> 32],
              [input_size |-> 32,  input_dim |-> 256, hidden_dim |-> 32],
              [input_size |-> 16,  input_dim |-> 512, hidden_dim |-> 32] >>

\* The mask-conditioned heads as they would be if stage 2 had kept stage 1's
\* patch size.
conv_z_refSamePatch ==
    << [image_size |-> 128, patch_size |-> 16, num_classes |-> 32, channels |-> 32],
       [image_size |-> 64,  patch_size |-> 16, num_classes |-> 32, channels |-> 32],
       [image_size |-> 32,  patch_size |-> 4,  num_classes |-> 32, channels |-> 32],
       [image_size |-> 16,  patch_size |-> 2,  num_classes |-> 32, channels |-> 32] >>

\* Mask-conditioned heads conv_z_ref1..4 (SimpleViT_double).
conv_z_ref == << [image_size |-> 128, patch_size |-> 16, num_classes |-> 32, channels |-> 32],
                 [image_size |-> 64,  patch_size |-> 8,  num_classes |-> 32, channels |-> 32],
                 [image_size |-> 32,  patch_size |-> 4,  num_classes |-> 32, channels |-> 32],
                 [image_size |-> 16,  patch_size |-> 2,  num_classes |-> 32, channels |-> 32] >>

\* Mask-free heads conv_z1_ref1..4 (SimpleViT).
conv_z1_ref == << [image_size |-> 128, patch_size |-> 16, num_classes |-> 32, channels |-> 32],
                  [image_size |-> 64,  patch_size |-> 8,  num_classes |-> 32, channels |-> 32],
                  [image_size |-> 32,  patch_size |-> 4,  num_classes |-> 32, channels |-> 32],
                  [image_size |-> 16,  patch_size |-> 2,  num_classes |-> 32, channels |-> 32] >>

\* The first regression layer as it would be with one 32-wide embedding per
\* stage and stream.
quality_img_ref1OneHead == [in_features |-> 32 * 8, out_features |-> 32 * 4]

\* quality_img_ref1 = Linear(32*16, 32*4) + Dropout, quality_img_ref2 = Linear(128, 1)
quality_img_ref1 == [in_features |-> 32 * 16, out_features |-> 32 * 4]
quality_img_ref2 == [in_features |-> 128, out_features |-> 1]

\* The value that stands for "no model object".
NoModel == [built |-> FALSE]

\* The submodules self holds when __init__ reaches its initialisation loops:
\* the gates, the heads, the regression layers and avgpool.  conv1, bn1,
\* maxpool and layer1..layer4 are assigned after the loops.
ModulesAtInitLoop ==
    {"convgru1", "convgru2", "convgru3", "convgru4",
     "conv_z1_ref1", "conv_z1_ref2", "conv_z1_ref3", "conv_z1_ref4",
     "conv_z_ref1", "conv_z_ref2", "conv_z_ref3", "conv_z_ref4",
     "quality_img_ref1", "quality_img_ref2", "avgpool"}

LayerName(k) == <<"layer1", "layer2", "layer3", "layer4">>[k]

\* nn.BatchNorm2d constructs its weight as ones.
BatchNormDefaultWeight == 1

\* "if zero_init_residual: for m in self.modules(): ..." sets the weight of the
\* last BatchNorm (bn3 of a Bottleneck, bn2 of a BasicBlock) of the residual
\* blocks among the modules it walks to 0; a block built afterwards keeps the
\* weight it was constructed with.  The result is that weight per layer.
ZeroInitResidual(zero_init_residual, modules) ==
    [k \in 1..4 |->
        IF zero_init_residual /\ LayerName(k) \in modules
        THEN 0 ELSE BatchNormDefaultWeight]

\* ResNet.__init__(block, layers, num_classes, zero_init_residual, groups,
\* width_per_group, replace_stride_with_dilation).  rswd is the sequence handed
\* in (<<>> of length 0 stands for None, replaced by [False, False, False]).
\* The length check comes first; then layer1..layer4 are built in order and the
\* first constructor that raises ends the construction.
ResNetInit(block, layers, zero_init_residual, groups, width_per_group, rswd0) ==
    LET rswd == IF rswd0 = <<>> THEN <<FALSE, FALSE, FALSE>> ELSE rswd0
        self0 == [inplanes |-> 64, dilation |-> 1,
                  groups |-> groups, base_width |-> width_per_group]
        l1 == _make_layer(self0,   block, 64,  layers[1], 1, FALSE)
        l2 == _make_layer(l1.self, block, 128, layers[2], 2, rswd[1])
        l3 == _make_layer(l2.self, block, 256, layers[3], 2, rswd[2])
        l4 == _make_layer(l3.self, block, 512, layers[4], 2, rswd[3])
    IN  IF Len(rswd) # 3 THEN [err |-> "ValueError", model |-> NoModel]
        ELSE IF l1.err # "ok" THEN [err |-> l1.err, model |-> NoModel]
        ELSE IF l2.err # "ok" THEN [err |-> l2.err, model |-> NoModel]
        ELSE IF l3.err # "ok" THEN [err |-> l3.err, model |-> NoModel]
        ELSE IF l4.err # "ok" THEN [err |-> l4.err, model |-> NoModel]
        ELSE [err |-> "ok",
              model |-> [built |-> TRUE,
                         block |-> block,
                         zero_init_residual |-> zero_init_residual,
                         bn_last_weight |->
                             ZeroInitResidual(zero_init_residual, ModulesAtInitLoop),
                         channels |-> <<l1.channels, l2.channels, l3.channels, l4.channels>>,
                         stride |-> <<l1.stride, l2.stride, l3.stride, l4.stride>>]]

\* ------------------------------------------------ state_dict and its loading
\* A tensor is a shape and an abstract content.  Of the entries of
\* model.state_dict() three stand for their kinds: a backbone parameter the
\* public checkpoints also hold, a backbone buffer, and a parameter of the
\* regression head that no public checkpoint holds.  "fc.weight" stands for the
\* checkpoint keys that ResNet here has no module for (it defines no fc layer).
ModelKeys == {"conv1.weight", "bn1.num_batches_tracked", "quality_img_ref2.weight"}
DownloadKeys == {"conv1.weight", "bn1.num_batches_tracked", "fc.weight"}

ParamShape(k) ==
    CASE k = "conv1.weight" -> <<64, 3, 7, 7>>
      [] k = "bn1.num_batches_tracked" -> <<>>
      [] k = "quality_img_ref2.weight" -> <<1, 128>>
      [] OTHER -> <<1000, 512>>

\* Content right after construction: the buffer counts from 0; 1 stands for a
\* parameter's freshly drawn value.
ConstructedVal(k) == IF k = "bn1.num_batches_tracked" THEN 0 ELSE 1

\* model.state_dict() of a freshly constructed model
FreshStateDict == [k \in ModelKeys |-> [shape |-> ParamShape(k), val |-> ConstructedVal(k)]]

\* What model_zoo.load_url may hand back: any subset of DownloadKeys, each
\* tensor with the model's shape or (for conv1.weight) another one; 2 stands for
\* the checkpoint's content.
DownloadTensors(k) ==
    IF k = "conv1.weight"
    THEN {[shape |-> ParamShape(k), val |-> 2], [shape |-> <<64, 1, 7, 7>>, val |-> 2]}
    ELSE {[shape |-> ParamShape(k), val |-> 2]}

Downloads ==
    UNION { { m \in [D -> UNION {DownloadTensors(k) : k \in D}] :
                \A k \in D : m[k] \in DownloadTensors(k) } : D \in SUBSET DownloadKeys }

\* 'branch_' in k (resnet50's extra filter); no key of this model's state_dict
\* and no key of DownloadKeys contains it.
HasBranch(k) == FALSE

\* The filter as it would be if it kept every downloaded key.
FilterKeysKeepAll(pre_train_model, model_dict, skip_branch) == pre_train_model

\* {k:v for k,v in pre_train_model.items() if k in model_dict [and not 'branch_' in k]}
FilterKeys(pre_train_model, model_dict, skip_branch) ==
    LET keep == {k \in DOMAIN pre_train_model :
                    k \in DOMAIN model_dict /\ ~(skip_branch /\ HasBranch(k))}
    IN  [k \in keep |-> pre_train_model[k]]

\* model_dict.update(pre_train_model)
DictUpdate(model_dict, other) ==
    [k \in DOMAIN model_dict \cup DOMAIN other |->
        IF k \in DOMAIN other THEN other[k] ELSE model_dict[k]]

\* model.load_state_dict(d) with its default strict=True: a missing key, an
\* unexpected key or a tensor of another shape raises RuntimeError; otherwise
\* every entry is copied into the model.
load_state_dict(cur, d) ==
    LET missing == DOMAIN cur \ DOMAIN d
        unexpected == DOMAIN d \ DOMAIN cur
        mismatch == {k \in DOMAIN cur \cap DOMAIN d : d[k].shape # cur[k].shape}
    IN  IF missing # {} \/ unexpected # {} \/ mismatch # {}
        THEN [err |-> "RuntimeError", sd |-> cur]
        ELSE [err |-> "ok", sd |-> [k \in DOMAIN cur |-> d[k]]]

\* The "if pretrained:" body of resnet18/34/50/101/152 and resnext*.
PartialLoad(cur, download, skip_branch) ==
    LET model_dict == cur
        pre_train_model == FilterKeys(download, model_dict, skip_branch)
    IN  load_state_dict(cur, DictUpdate(model_dict, pre_train_model))

\* _resnet's "if pretrained:" body: load_state_dict_from_url is neither defined
\* nor imported in the file, so evaluating the name raises NameError.
ResnetLoad(cur, download) == [err |-> "NameError", sd |-> cur]

\* ------------------------------------------------------- factory functions
Factories == {"resnet18", "resnet34", "resnet50", "resnet101", "resnet152",
              "resnext50_32x4d", "resnext101_32x8d",
              "wide_resnet50_2", "wide_resnet101_2"}

\* Per factory: block, layers, how ResNet(...) is called and how weights load.
\*  positional: pretrained and progress are passed positionally, so they land
\*  in num_classes and zero_init_residual.
FactoryDef(name) ==
    CASE name = "resnet18"  -> [block |-> "BasicBlock", layers |-> <<2, 2, 2, 2>>,
                                groups |-> 0, width |-> 0, positional |-> FALSE, load |-> "partial"]
      [] name = "resnet34"  -> [block |-> "BasicBlock", layers |-> <<3, 4, 6, 3>>,
                                groups |-> 0, width |-> 0, positional |-> FALSE, load |-> "partial"]
      [] name = "resnet50"  -> [block |-> "Bottleneck", layers |-> <<3, 4, 6, 3>>,
                                groups |-> 0, width |-> 0, positional |-> FALSE, load |-> "partial_branch"]
      [] name = "resnet101" -> [block |-> "Bottleneck", layers |-> <<3, 4, 23, 3>>,
                                groups |-> 0, width |-> 0, positional |-> FALSE, load |-> "partial"]
      [] name = "resnet152" -> [block |-> "Bottleneck", layers |-> <<3, 8, 36, 3>>,
                                groups |-> 0, width |-> 0, positional |-> FALSE, load |-> "partial"]
      [] name = "resnext50_32x4d"  -> [block |-> "Bottleneck", layers |-> <<3, 4, 6, 3>>,
                                groups |-> 32, width |-> 4, positional |-> TRUE, load |-> "partial"]
      [] name = "resnext101_32x8d" -> [block |-> "Bottleneck", layers |-> <<3, 4, 23, 3>>,
                                groups |-> 32, width |-> 8, positional |-> TRUE, load |-> "partial"]
      [] name = "wide_resnet50_2"  -> [block |-> "Bottleneck", layers |-> <<3, 4, 6, 3>>,
                                groups |-> 0, width |-> 64 * 2, positional |-> FALSE, load |-> "_resnet"]
      [] name = "wide_resnet101_2" -> [block |-> "Bottleneck", layers |-> <<3, 4, 23, 3>>,
                                groups |-> 0, width |-> 64 * 2, positional |-> FALSE, load |-> "_resnet"]

\* A factory call with no keyword arguments beyond pretrained / progress:
\* construct, then load when pretrained.  An exception leaves the caller with
\* no model.
FactoryCall(name, pretrained, progress, download) ==
    LET f == FactoryDef(name)
        groups == IF f.groups = 0 THEN 1 ELSE f.groups
        width  == IF f.width = 0 THEN 64 ELSE f.width
        zi     == IF f.positional THEN progress ELSE FALSE
        built  == ResNetInit(f.block, f.layers, zi, groups, width, <<>>)
        loaded == IF f.load = "_resnet" THEN ResnetLoad(FreshStateDict, download)
                  ELSE PartialLoad(FreshStateDict, download, f.load = "partial_branch")
    IN  IF built.err # "ok" THEN [err |-> built.err, model |-> NoModel, sd |-> <<>>]
        ELSE IF ~pretrained THEN [err |-> "ok", model |-> built.model, sd |-> FreshStateDict]
        ELSE IF loaded.err # "ok" THEN [err |-> loaded.err, model |-> NoModel, sd |-> <<>>]
        ELSE [err |-> "ok", model |-> built.model, sd |-> loaded.sd]

\* ------------------------------------------------------------ forward: shapes
\* Output side of nn.Conv2d / nn.MaxPool2d for an input side h.
ConvOut(h, kernel_size, stride, padding, dilation) ==
    ((h + 2 * padding - dilation * (kernel_size - 1) - 1) \div stride) + 1

\* The stem as it would be with a max-pool of stride 1.
StemOutPoolStride1(h) == ConvOut(ConvOut(h, 7, 2, 3, 1), 3, 1, 1, 1)

\* self.conv1 (7x7, stride 2, padding 3) then self.maxpool (3x3, stride 2, padding 1)
StemConv(h) == ConvOut(h, 7, 2, 3, 1)
StemOut(h) == ConvOut(StemConv(h), 3, 2, 1, 1)

\* One stage: its first block's 3x3 convolution (padding = dilation) and its
\* 1x1 downsample convolution both carry the stage's stride.
StageOut(h, stride) == ConvOut(h, 3, stride, 1, 1)

\* Side of the stage-k feature map (k = 1..4) of a model for frame side h.
RECURSIVE FeatSide(_, _, _)
FeatSide(model, h, k) ==
    IF k = 0 THEN StemOut(h)
    ELSE StageOut(FeatSide(model, h, k - 1), model.stride[k])

\* torch.nn.functional.interpolate(mask, scale_factor = 1/4, 1/8, 1/16, 1/32):
\* the output side is floor(side * scale_factor).
MaskDivisor(k) == CASE k = 1 -> 4 [] k = 2 -> 8 [] k = 3 -> 16 [] OTHER -> 32
Interpolate(h, k) == h \div MaskDivisor(k)

\* F.batch_norm in training mode refuses an input with one value per channel.
BatchNormRaises(training, n, side) == training /\ n * side * side = 1

\* A backbone pass raises when one of its BatchNorm layers does: bn1 sees the
\* stem convolution's output, the blocks' layers see the stage maps.  Both
\* streams have the same shapes, so the stream-10 pass decides.
BackboneRaises(model, training, n, h) ==
    \/ BatchNormRaises(training, n, StemConv(h))
    \/ \E k \in 1..4 : BatchNormRaises(training, n, FeatSide(model, h, k))

\* Number of times one forward call enters bn1 (each entry adds 1 to
\* bn1.num_batches_tracked in training mode, before the input is looked at):
\* once per stream, the stream-05 pass running only if the stream-10 pass
\* did not raise.
Bn1Calls(model, training, n, h) ==
    IF BackboneRaises(model, training, n, h) THEN 1 ELSE 2

\* BatchNorm as it would be if it tracked statistics in inference mode too.
BatchNormTrackAlways(training, tracked, calls) == tracked + calls

\* nn.BatchNorm2d.forward: the running statistics move only in training mode.
BatchNormTrack(training, tracked, calls) == IF training THEN tracked + calls ELSE tracked

\* torch.cat((z_ref, z1_ref), dim=1): the stage's two embeddings side by side.
StageEmbed(k) == conv_z_ref[k].num_classes + conv_z1_ref[k].num_classes

\* What stage k of forward sees, for frame side h.
StageShapes(model, h, k) ==
    LET f == FeatSide(model, h, k)
    IN  [feat_channels |-> model.channels[k],
         feat_side |-> f,
         gru_channels |-> convgru[k].hidden_dim,
         gru_side |-> f,
         mask_channels |-> convgru[k].hidden_dim,
         mask_side |-> Interpolate(h, k),
         patches |-> (f \div conv_z_ref[k].patch_size) * (f \div conv_z_ref[k].patch_size),
         patches1 |-> (f \div conv_z1_ref[k].patch_size) * (f \div conv_z1_ref[k].patch_size),
         embed |-> StageEmbed(k)]

\* The components of stage k that receive a shape other than the one they were
\* constructed for.
StageMismatch(model, h, k) ==
    LET s == StageShapes(model, h, k)
    IN  (IF s.feat_channels # convgru[k].input_dim \/ s.feat_side # convgru[k].input_size
         THEN {<<"convgru", k>>} ELSE {})
        \cup
        (IF s.gru_channels # conv_z_ref[k].channels \/ s.gru_side # conv_z_ref[k].image_size
            \/ s.mask_side # s.gru_side
         THEN {<<"conv_z_ref", k>>} ELSE {})
        \cup
        (IF s.gru_channels # conv_z1_ref[k].channels \/ s.gru_side # conv_z1_ref[k].image_size
         THEN {<<"conv_z1_ref", k>>} ELSE {})

\* The call of stage k that raises, counted in the order of the source (1, 2:
\* the gate on the two argument orders; 3, 4, 5: interpolate and the two heads
\* of stream 10; 6, 7, 8: the same for stream 05), 0 if none does.  A gate fed
\* another channel count than its convolutions were built for, an interpolation
\* to side 0 and a map that does not divide into patches always raise; for the
\* other departures from the configured sizes the gate and the heads either
\* raise (lenient = FALSE) or go on (lenient = TRUE).  Both streams have the
\* same shapes, so what stream 05 would raise on, stream 10 raised on before.
StageFailStep(model, h, k, lenient) ==
    LET s == StageShapes(model, h, k)
        m == StageMismatch(model, h, k)
    IN  IF \/ s.feat_channels # convgru[k].input_dim
           \/ (~lenient /\ <<"convgru", k>> \in m)
        THEN 1
        ELSE IF s.mask_side = 0
        THEN 3
        ELSE IF \/ s.gru_channels # conv_z_ref[k].channels
                \/ s.gru_side % conv_z_ref[k].patch_size # 0
                \/ s.mask_side % conv_z_ref[k].patch_size # 0
                \/ (~lenient /\ <<"conv_z_ref", k>> \in m)
        THEN 4
        ELSE IF \/ s.gru_channels # conv_z1_ref[k].channels
                \/ s.gru_side % conv_z1_ref[k].patch_size # 0
                \/ (~lenient /\ <<"conv_z1_ref", k>> \in m)
        THEN 5
        ELSE 0

\* Whether stage k raises.
StageRaises(model, h, k, lenient) == StageFailStep(model, h, k, lenient) # 0

RECURSIVE StagesDone(_, _, _, _)
StagesDone(model, h, k, lenient) ==
    IF k > 4 THEN 4
    ELSE IF StageRaises(model, h, k, lenient) THEN k - 1
    ELSE StagesDone(model, h, k + 1, lenient)

RECURSIVE SumSeq(_)
SumSeq(q) == IF q = <<>> THEN 0 ELSE Head(q) + SumSeq(Tail(q))

\* Width of torch.cat((z_ref1_10, z_ref1_05, ..., z_ref4_05), dim=1): every
\* stage contributes its embedding once per stream.
CatWidth ==
    SumSeq([i \in 1..8 |-> StageEmbed((i + 1) \div 2)])

\* ------------------------------------------------- forward: rows and clips
\* frames.view(-1, C, H, W) of a contiguous (B, T, C, H, W) tensor: flat row i
\* holds frame t of clip b.
ViewFlat(b_size, t_size) ==
    [i \in 1..(b_size * t_size) |-> <<((i - 1) \div t_size) + 1, ((i - 1) % t_size) + 1>>]

\* The per-frame score of flat row i, as the frames it was computed from.
RowScore(b_size, t_size) ==
    [i \in 1..(b_size * t_size) |->
        [x_10 |-> <<"10", ViewFlat(b_size, t_size)[i]>>,
         x_05 |-> <<"05", ViewFlat(b_size, t_size)[i]>>,
         x_10_mask |-> <<"10_mask", ViewFlat(b_size, t_size)[i]>>,
         x_05_mask |-> <<"05_mask", ViewFlat(b_size, t_size)[i]>>]]

\* The final view as it would be with the two sizes exchanged and transposed
\* back: entry (b, t) is flat row (t-1)*B + b.
ViewTB(rows, b_size, t_size) ==
    [b \in 1..b_size |-> [t \in 1..t_size |-> rows[(t - 1) * b_size + b]]]

\* y_mid_avg.view(x_size[0], x_size[1]): entry (b, t) is flat row (b-1)*T + t.
ViewBT(rows, b_size, t_size) ==
    [b \in 1..b_size |-> [t \in 1..t_size |-> rows[(b - 1) * t_size + t]]]

\* torch.mean(y, dim=1): per clip, the summands and the divisor.
MeanDim1(y, b_size, t_size) ==
    [b \in 1..b_size |-> [summands |-> y[b], divisor |-> t_size]]

\* ----------------------------------------------------- forward: stage calls
\* A tensor of the forward pass, by what it was computed from: its kind, its
\* stage (0 for an argument of forward) and the arguments of forward that went
\* into it, in the order they were consumed.
Val(kind, stage, of) == [kind |-> kind, stage |-> stage, of |-> of]

\* One call of a submodule or function: its arguments and what it returned.
Call(fn, stage, args, out) == [fn |-> fn, stage |-> stage, args |-> args, out |-> out]

\* The calls of stage k as they would be if the second gate call took the
\* first call's output as its second argument.
StageCallsChained(k, x_10, x_05, x_10_mask, x_05_mask) ==
    LET x_image_10 == Val("x_image", k, <<x_10>>)
        x_image_05 == Val("x_image", k, <<x_05>>)
        x_image_10_gru == Val("x_image_gru", k, x_image_10.of \o x_image_05.of)
        x_image_05_gru == Val("x_image_gru", k, x_image_05.of \o x_image_10_gru.of)
        mask_scaled_10 == Val("mask_scaled", k, <<x_10_mask>>)
        mask_scaled_05 == Val("mask_scaled", k, <<x_05_mask>>)
    IN  << Call("convgru", k, <<x_image_10, x_image_05>>, x_image_10_gru),
           Call("convgru", k, <<x_image_05, x_image_10_gru>>, x_image_05_gru),
           Call("interpolate", k, << Val("mask", 0, <<x_10_mask>>) >>, mask_scaled_10),
           Call("conv_z_ref", k, <<x_image_10_gru, mask_scaled_10>>,
                Val("z_ref", k, x_image_10_gru.of \o mask_scaled_10.of)),
           Call("conv_z1_ref", k, <<x_image_10_gru>>, Val("z1_ref", k, x_image_10_gru.of)),
           Call("interpolate", k, << Val("mask", 0, <<x_05_mask>>) >>, mask_scaled_05),
           Call("conv_z_ref", k, <<x_image_05_gru, mask_scaled_05>>,
                Val("z_ref", k, x_image_05_gru.of \o mask_scaled_05.of)),
           Call("conv_z1_ref", k, <<x_image_05_gru>>, Val("z1_ref", k, x_image_05_gru.of)) >>

\* The calls of stage k as they would be if the stream-05 heads were given the
\* stream-10 mask.
StageCallsOneMask(k, x_10, x_05, x_10_mask, x_05_mask) ==
    LET x_image_10 == Val("x_image", k, <<x_10>>)
        x_image_05 == Val("x_image", k, <<x_05>>)
        x_image_10_gru == Val("x_image_gru", k, x_image_10.of \o x_image_05.of)
        x_image_05_gru == Val("x_image_gru", k, x_image_05.of \o x_image_10.of)
        mask_scaled_10 == Val("mask_scaled", k, <<x_10_mask>>)
    IN  << Call("convgru", k, <<x_image_10, x_image_05>>, x_image_10_gru),
           Call("convgru", k, <<x_image_05, x_image_10>>, x_image_05_gru),
           Call("interpolate", k, << Val("mask", 0, <<x_10_mask>>) >>, mask_scaled_10),
           Call("conv_z_ref", k, <<x_image_10_gru, mask_scaled_10>>,
                Val("z_ref", k, x_image_10_gru.of \o mask_scaled_10.of)),
           Call("conv_z1_ref", k, <<x_image_10_gru>>, Val("z1_ref", k, x_image_10_gru.of)),
           Call("interpolate", k, << Val("mask", 0, <<x_10_mask>>) >>, mask_scaled_10),
           Call("conv_z_ref", k, <<x_image_05_gru, mask_scaled_10>>,
                Val("z_ref", k, x_image_05_gru.of \o mask_scaled_10.of)),
           Call("conv_z1_ref", k, <<x_image_05_gru>>, Val("z1_ref", k, x_image_05_gru.of)) >>

\* The eight calls of stage k in the order of the source: convgru<k> on
\* (x_image<k>_10, x_image<k>_05) and on (x_image<k>_05, x_image<k>_10), then
\* per stream the mask interpolation, conv_z_ref<k> on the fused map and the
\* scaled mask, and conv_z1_ref<k> on the fused map.
StageCalls(k, x_10, x_05, x_10_mask, x_05_mask) ==
    LET x_image_10 == Val("x_image", k, <<x_10>>)
        x_image_05 == Val("x_image", k, <<x_05>>)
        x_image_10_gru == Val("x_image_gru", k, x_image_10.of \o x_image_05.of)
        x_image_05_gru == Val("x_image_gru", k, x_image_05.of \o x_image_10.of)
        mask_scaled_10 == Val("mask_scaled", k, <<x_10_mask>>)
        mask_scaled_05 == Val("mask_scaled", k, <<x_05_mask>>)
    IN  << Call("convgru", k, <<x_image_10, x_image_05>>, x_image_10_gru),
           Call("convgru", k, <<x_image_05, x_image_10>>, x_image_05_gru),
           Call("interpolate", k, << Val("mask", 0, <<x_10_mask>>) >>, mask_scaled_10),
           Call("conv_z_ref", k, <<x_image_10_gru, mask_scaled_10>>,
                Val("z_ref", k, x_image_10_gru.of \o mask_scaled_10.of)),
           Call("conv_z1_ref", k, <<x_image_10_gru>>, Val("z1_ref", k, x_image_10_gru.of)),
           Call("interpolate", k, << Val("mask", 0, <<x_05_mask>>) >>, mask_scaled_05),
           Call("conv_z_ref", k, <<x_image_05_gru, mask_scaled_05>>,
                Val("z_ref", k, x_image_05_gru.of \o mask_scaled_05.of)),
           Call("conv_z1_ref", k, <<x_image_05_gru>>, Val("z1_ref", k, x_image_05_gru.of)) >>

\* The calls stage k made: all eight, or those up to the one that raised.
StageTrace(model, h, k, lenient, x_10, x_05, x_10_mask, x_05_mask) ==
    LET f == StageFailStep(model, h, k, lenient)
    IN  SubSeq(StageCalls(k, x_10, x_05, x_10_mask, x_05_mask), 1, IF f = 0 THEN 8 ELSE f)

\* The operands of torch.cat((z_ref1_10, z_ref1_05, ..., z_ref4_05), dim=1):
\* per stage and stream slot the pair (mask-conditioned, mask-free) embedding
\* and the widths of the two.
CatParts(x_10, x_05, x_10_mask, x_05_mask) ==
    [i \in 1..8 |->
        LET k == (i + 1) \div 2
            c == StageCalls(k, x_10, x_05, x_10_mask, x_05_mask)
        IN  [stage |-> k,
             stream |-> IF i % 2 = 1 THEN "10" ELSE "05",
             z_ref |-> IF i % 2 = 1 THEN c[4].out ELSE c[7].out,
             z1_ref |-> IF i % 2 = 1 THEN c[5].out ELSE c[8].out,
             widths |-> <<conv_z_ref[k].num_classes, conv_z1_ref[k].num_classes>>]]

\* ------------------------------------------------------------ forward: the call
\* The branch as it would be if it tested mode_idx == 0 alone.
ModeHandledZeroOnly(mode_idx) == mode_idx = 0

\* "if mode_idx == 0 or mode_idx == 1:", the only branch of forward.
ModeHandled(mode_idx) == mode_idx = 0 \/ mode_idx = 1

\* x_image1..x_image4 of one stream: channels and side of the four stage maps.
Backbone(model, h) ==
    [k \in 1..4 |-> [channels |-> model.channels[k], side |-> FeatSide(model, h, k)]]

\* ResNet.forward(frames_dir_10_video, frames_dir_05_video, frames_dir_10_video_mask,
\* frames_dir_05_video_mask, mode_idx) for frames of shape (B, T, 3, H, H) and
\* masks of shape (B, T, 1, H, H); x_10, x_05, x_10_mask and x_05_mask name the
\* four tensors the caller passed.  The result records how the call ended, the
\* shape of what it returned, the stages it entered and what they saw; sd is the
\* model's state_dict after the call.
forward(model, sd, training, b_size, t_size, h, mode_idx, lenient, x_10, x_05, x_10_mask, x_05_mask) ==
    LET n == b_size * t_size
        calls == Bn1Calls(model, training, n, h)
        tracked == sd["bn1.num_batches_tracked"]
        sd1 == [sd EXCEPT !["bn1.num_batches_tracked"] =
                   [shape |-> tracked.shape,
                    val |-> BatchNormTrack(training, tracked.val, calls)]]
        done == StagesDone(model, h, 1, lenient)
        entered == IF done < 4 THEN done + 1 ELSE 4
        y == ViewBT(RowScore(b_size, t_size), b_size, t_size)
        ret ==
            IF ~ModeHandled(mode_idx)
        THEN [kind |-> "None", shape |-> <<>>, backbone |-> <<>>, stages |-> <<>>,
              mismatch |-> {}, cat |-> 0, out |-> <<>>,
              done |-> 0, calls |-> <<>>, parts |-> <<>>]
        ELSE IF BackboneRaises(model, training, n, h)
        THEN [kind |-> "raised", shape |-> <<>>, backbone |-> <<>>, stages |-> <<>>,
              mismatch |-> {}, cat |-> 0, out |-> <<>>,
              done |-> 0, calls |-> <<>>, parts |-> <<>>]
        ELSE IF done < 4
        THEN [kind |-> "raised", shape |-> <<>>,
              backbone |-> Backbone(model, h),
              stages |-> [k \in 1..entered |-> StageShapes(model, h, k)],
              mismatch |-> UNION {StageMismatch(model, h, k) : k \in 1..entered},
              cat |-> 0, out |-> <<>>,
              done |-> done,
              calls |-> [k \in 1..entered |->
                            StageTrace(model, h, k, lenient, x_10, x_05, x_10_mask, x_05_mask)],
              parts |-> <<>>]
        ELSE IF CatWidth # quality_img_ref1.in_features
                \/ quality_img_ref1.out_features # quality_img_ref2.in_features
        THEN [kind |-> "raised", shape |-> <<>>,
              backbone |-> Backbone(model, h),
              stages |-> [k \in 1..4 |-> StageShapes(model, h, k)],
              mismatch |-> UNION {StageMismatch(model, h, k) : k \in 1..4}
                              \cup {<<"quality_img_ref", 1>>},
              cat |-> CatWidth, out |-> <<>>,
              done |-> 4,
              calls |-> [k \in 1..4 |->
                            StageTrace(model, h, k, lenient, x_10, x_05, x_10_mask, x_05_mask)],
              parts |-> CatParts(x_10, x_05, x_10_mask, x_05_mask)]
        ELSE [kind |-> "tensor", shape |-> <<b_size>>,
              backbone |-> Backbone(model, h),
              stages |-> [k \in 1..4 |-> StageShapes(model, h, k)],
              mismatch |-> UNION {StageMismatch(model, h, k) : k \in 1..4},
              cat |-> CatWidth,
              out |-> MeanDim1(y, b_size, t_size),
              done |-> 4,
              calls |-> [k \in 1..4 |->
                            StageTrace(model, h, k, lenient, x_10, x_05, x_10_mask, x_05_mask)],
              parts |-> CatParts(x_10, x_05, x_10_mask, x_05_mask)]
    IN  [ret |-> ret, sd |-> IF ModeHandled(mode_idx) THEN sd1 ELSE sd]

\* ------------------------------------------------------------------- state
VARIABLES
    model,        \* the model object the caller holds, or NoModel
    state_dict,   \* model.state_dict(): parameters and buffers (<<>> without a model)
    training,     \* model.training
    last          \* the latest call: its arguments and how it ended

vars == <<model, state_dict, training, last>>

Idle == [op |-> "none"]

Init ==
    /\ model = NoModel
    /\ state_dict = <<>>
    /\ training = FALSE
    /\ last = Idle

\* The frame shapes handed to forward: every (B, T, H) within the bounds, the
\* shape the module's __main__ builds, and the frame side the gates and heads
\* are constructed for (four times the stage-1 input_size).
MainB == 1
MainT == 4
MainH == 448
ConfiguredH == convgru[1].input_size * MaskDivisor(1)
Inputs ==
    {[B |-> b, T |-> t, H |-> h] : b \in 1..MaxB, t \in 1..MaxT, h \in 1..MaxH}
    \cup {[B |-> MainB, T |-> MainT, H |-> MainH], [B |-> MainB, T |-> MainT, H |-> ConfiguredH]}

\* One of the exported factory functions is called and its result bound.
\* A module is in training mode when constructed.
CallFactory ==
    /\ ~model.built
    /\ last.op = "none"
    /\ \E name \in Factories, pretrained \in BOOLEAN, progress \in BOOLEAN, download \in Downloads :
          LET r == FactoryCall(name, pretrained, progress, download)
          IN  /\ model' = r.model
              /\ state_dict' = r.sd
              /\ training' = r.model.built
              /\ last' = [op |-> "factory", name |-> name, pretrained |-> pretrained,
                          download |-> IF pretrained THEN download ELSE <<>>,
                          err |-> r.err]

\* ResNet(block, layers, ...) called directly, over every configuration within
\* the bounds.
LayerLists == [1..4 -> 0..MaxBlocks]
RswdChoices == [1..3 -> BOOLEAN] \cup {<<>>, <<TRUE, FALSE>>, <<FALSE, FALSE, FALSE, TRUE>>}

Construct ==
    /\ ~model.built
    /\ last.op = "none"
    /\ \E block \in {"BasicBlock", "Bottleneck"}, layers \in LayerLists,
          groups \in {1, 2}, width_per_group \in {64, 128}, rswd \in RswdChoices,
          zero_init_residual \in BOOLEAN :
          LET r == ResNetInit(block, layers, zero_init_residual, groups, width_per_group, rswd)
          IN  /\ model' = r.model
              /\ state_dict' = IF r.model.built THEN FreshStateDict ELSE <<>>
              /\ training' = r.model.built
              /\ last' = [op |-> "ResNet", block |-> block, layers |-> layers,
                          zero_init_residual |-> zero_init_residual,
                          groups |-> groups, width_per_group |-> width_per_group,
                          replace_stride_with_dilation |-> rswd, err |-> r.err]

\* model.train(flag) / model.eval()
Train ==
    /\ model.built
    /\ last.op = "none"
    /\ training' = ~training
    /\ UNCHANGED <<model, state_dict, last>>

\* model(frames_10, frames_05, mask_10, mask_05, mode_idx)
Modes == 0..MaxMode

\* The two ways a caller holding videos A and B with their masks can fill the
\* four tensor arguments: A as stream 10 and B as stream 05, or the reverse.
CallerArgs == { <<"A", "B", "maskA", "maskB">>, <<"B", "A", "maskB", "maskA">> }

Forward ==
    /\ model.built
    /\ last.op = "none"
    /\ \E in \in Inputs, mode_idx \in Modes, lenient \in BOOLEAN, args \in CallerArgs :
          /\ (training /\ ModeHandled(mode_idx))
                => state_dict["bn1.num_batches_tracked"].val + 2 <= MaxTracked
          /\ LET r == forward(model, state_dict, training, in.B, in.T, in.H, mode_idx, lenient,
                              args[1], args[2], args[3], args[4])
             IN  /\ state_dict' = r.sd
                 /\ last' = [op |-> "forward", mode_idx |-> mode_idx,
                             B |-> in.B, T |-> in.T, H |-> in.H, args |-> args,
                             before |-> state_dict, ret |-> r.ret]
    /\ UNCHANGED <<model, training>>

\* The caller is done with the latest call's outcome.
Release ==
    /\ last.op # "none"
    /\ last' = Idle
    /\ UNCHANGED <<model, state_dict, training>>

\* The caller drops the model.
Del ==
    /\ model.built
    /\ last.op = "none"
    /\ model' = NoModel
    /\ state_dict' = <<>>
    /\ training' = FALSE
    /\ UNCHANGED last

\* The life of a model made by a factory function.
Next == CallFactory \/ Train \/ Forward \/ Release \/ Del

Spec == Init /\ [][Next]_vars

\* Direct constructor calls.
NextBuild == Construct \/ Release \/ Del

SpecBuild == Init /\ [][NextBuild]_vars

\* ================================================================= claims
Returned == last.op = "forward" /\ last.ret.kind = "tensor"
Computed == last.op = "forward" /\ last.mode_idx \in {0, 1}

\* C1: a forward call with mode_idx 0 or 1 on a factory-built model, for frames
\* of shape (1, 4, 3, 448, 448) and masks of shape (1, 4, 1, 448, 448), hands
\* every gate, head and linear layer the shape it is configured for and returns
\* a tensor of shape (1,).
C1_EndToEndShape ==
    (Computed /\ last.B = 1 /\ last.T = 4 /\ last.H = 448)
        => /\ last.ret.kind = "tensor"
           /\ last.ret.shape = <<1>>
           /\ last.ret.mismatch = {}

\* C2: whenever forward accepts a frame side H (the call returns its tensor),
\* the stage-k feature map has side exactly H/4, H/8, H/16, H/32 and the mask
\* interpolated for stage k has that same side, so the mask-conditioned head
\* gets a mask of the fused map's size.
C2_MaskFeatureAlignment ==
    Returned =>
        \A k \in 1..4 :
            /\ last.ret.backbone[k].side * <<4, 8, 16, 32>>[k] = last.H
            /\ last.ret.stages[k].mask_side = last.ret.backbone[k].side
            /\ last.ret.stages[k].mask_side = last.ret.stages[k].gru_side

C2_Witness == Returned /\ last.H = 64 /\ last.ret.stages[4].mask_side = 2

\* C3: the tensor forward returns has one entry per clip, and entry b is the
\* mean of exactly the T per-frame scores computed from frames (b, 1..T) of
\* both streams and both masks: no frame of another clip enters it.
C3_PerClipAveraging ==
    Returned =>
        /\ last.ret.shape = <<last.B>>
        /\ DOMAIN last.ret.out = 1..last.B
        /\ \A b \in 1..last.B :
              /\ last.ret.out[b].divisor = last.T
              /\ DOMAIN last.ret.out[b].summands = 1..last.T
              /\ \A t \in 1..last.T :
                    last.ret.out[b].summands[t] =
                        [x_10 |-> <<"10", <<b, t>>>>, x_05 |-> <<"05", <<b, t>>>>,
                         x_10_mask |-> <<"10_mask", <<b, t>>>>,
                         x_05_mask |-> <<"05_mask", <<b, t>>>>]

C3_Witness == Returned /\ last.B = 2 /\ last.T = 2

\* C8: forward with a mode_idx other than 0 and 1 computes nothing, raises
\* nothing, changes nothing and returns None; mode_idx 0 and 1 never take that
\* path.
C8_UnrecognizedMode ==
    last.op = "forward" =>
        /\ last.mode_idx \notin {0, 1} =>
              /\ last.ret.kind = "None"
              /\ last.ret.backbone = <<>>
              /\ last.ret.stages = <<>>
              /\ last.ret.out = <<>>
              /\ state_dict = last.before
        /\ last.mode_idx \in {0, 1} => last.ret.kind \in {"tensor", "raised"}

C8_Witness == last.op = "forward" /\ last.mode_idx = 2 /\ last.ret.kind = "None"

\* C9 as stated: no forward call, in training mode or in inference mode, changes
\* a parameter or buffer of the model.
C9_NoCrossCallState == last.op = "forward" => state_dict = last.before

\* C9 amended: in inference mode (training = False) a forward call leaves every
\* parameter and buffer as it was; in training mode a call with mode_idx 0 or 1
\* whose backbone pass completes advances bn1.num_batches_tracked by 2 (once
\* per stream) and changes nothing else.
C9_NoCrossCallStateInEval ==
    last.op = "forward" =>
        /\ ~training => state_dict = last.before
        /\ (training /\ Computed /\ last.ret.backbone # <<>>) =>
              /\ state_dict["bn1.num_batches_tracked"].val =
                    last.before["bn1.num_batches_tracked"].val + 2
              /\ \A k \in ModelKeys \ {"bn1.num_batches_tracked"} :
                    state_dict[k] = last.before[k]

C9_Witness == Returned /\ ~training /\ last.before["bn1.num_batches_tracked"].val > 0

\* C10: in every forward pass of a factory-built model the four stage maps have
\* 64, 128, 256 and 512 channels, the input_dim of convgru1..convgru4.
C10_BackboneChannels ==
    (Computed /\ last.ret.backbone # <<>>) =>
        \A k \in 1..4 :
            /\ last.ret.backbone[k].channels = <<64, 128, 256, 512>>[k]
            /\ last.ret.backbone[k].channels = convgru[k].input_dim

\* ----------------------------------------------------- construction claims
BasicCall == last.op = "ResNet" /\ last.block = "BasicBlock"
PositiveLayers == \A i \in 1..4 : last.layers[i] >= 1
RequestsDilation ==
    /\ Len(last.replace_stride_with_dilation) = 3
    /\ \E i \in 1..3 : last.replace_stride_with_dilation[i]
BadRswdLength == Len(last.replace_stride_with_dilation) \notin {0, 3}

\* C4: ResNet(BasicBlock, layers, ...) with groups != 1 or width_per_group != 64
\* raises ValueError during construction, whatever the layers list, and leaves
\* no model object.
C4_GroupedBasicBlockRaises ==
    (BasicCall /\ (last.groups # 1 \/ last.width_per_group # 64))
        => last.err = "ValueError" /\ ~model.built

C4_Witness ==
    /\ BasicCall /\ last.groups = 2 /\ last.width_per_group = 64
    /\ last.replace_stride_with_dilation = <<>>
    /\ last.layers = [i \in 1..4 |-> 2]
    /\ last.err = "ValueError"

\* C5 as stated: ResNet(BasicBlock, layers, replace_stride_with_dilation = r)
\* raises at construction for every layers list of positive counts whenever r
\* has a True entry, at any position, and whenever r has not 3 entries.
C5_DilationAlwaysRaises ==
    (BasicCall /\ PositiveLayers /\ (RequestsDilation \/ BadRswdLength))
        => last.err # "ok" /\ ~model.built

\* C5 amended: with groups = 1 and width_per_group = 64 the construction raises
\* NotImplementedError when r has a True entry, except when the only True entry
\* is the last one and the last stage has a single block: then no block is ever
\* given a dilation above 1 and the model is built (stage 4 with stride 1).
\* An r that has not 3 entries raises ValueError.  Nothing of this is left to
\* inference time: a constructor call either raises or yields the model.
C5_DilationRaisesWhenABlockIsDilated ==
    (BasicCall /\ PositiveLayers) =>
        /\ BadRswdLength => last.err = "ValueError" /\ ~model.built
        /\ (RequestsDilation /\ last.groups = 1 /\ last.width_per_group = 64) =>
              LET r == last.replace_stride_with_dilation
                  onlyLast == ~r[1] /\ ~r[2] /\ r[3] /\ last.layers[4] = 1
              IN  /\ onlyLast => last.err = "ok" /\ model.built /\ model.stride[4] = 1
                  /\ ~onlyLast => last.err = "NotImplementedError" /\ ~model.built
        /\ model.built <=> last.err = "ok"

C5_Witness ==
    /\ BasicCall /\ PositiveLayers /\ last.groups = 1 /\ last.width_per_group = 64
    /\ last.replace_stride_with_dilation = <<TRUE, FALSE, FALSE>>
    /\ last.layers[2] = 1
    /\ last.err = "NotImplementedError"

\* -------------------------------------------------- pretrained-load claims
PretrainedCall == last.op = "factory" /\ last.pretrained

\* The state_dict a partial load must leave: a model key absent from the
\* download keeps its constructed tensor, a key in both takes the download's,
\* and no key of the download that the model lacks appears.
PartiallyLoaded ==
    /\ model.built
    /\ DOMAIN state_dict = ModelKeys
    /\ \A k \in ModelKeys :
          state_dict[k] = IF k \in DOMAIN last.download THEN last.download[k]
                          ELSE FreshStateDict[k]

ShapesAgree ==
    \A k \in DOMAIN last.download \cap ModelKeys : last.download[k].shape = ParamShape(k)

\* C6 as stated: resnet18/34/50/101/152 with pretrained=True never raise and
\* leave a partial load, for any downloaded mapping.
C6_PartialLoadAnyMapping ==
    (PretrainedCall /\ last.name \in {"resnet18", "resnet34", "resnet50", "resnet101", "resnet152"})
        => last.err = "ok" /\ PartiallyLoaded

\* C6 amended: the same, for any downloaded mapping whose tensors under keys the
\* model also has are of the model's shapes (keys unknown to the model are
\* free); a tensor of another shape under a shared key makes load_state_dict
\* raise RuntimeError.
C6_PartialLoadMatchingShapes ==
    (PretrainedCall /\ last.name \in {"resnet18", "resnet34", "resnet50", "resnet101", "resnet152"})
        => /\ ShapesAgree => last.err = "ok" /\ PartiallyLoaded
           /\ ~ShapesAgree => last.err = "RuntimeError" /\ ~model.built

C6_Witness ==
    /\ PretrainedCall /\ last.name = "resnet50" /\ last.err = "ok"
    /\ DOMAIN last.download = {"conv1.weight", "fc.weight"}
    /\ state_dict["conv1.weight"].val = 2
    /\ state_dict["quality_img_ref2.weight"].val = 1

\* C7: every exported factory called with pretrained=True performs a partial
\* load: a difference between the keys of the download and the keys of the
\* model is never an error.
C7_EveryFactoryPartialLoad ==
    (PretrainedCall /\ ShapesAgree) => last.err = "ok" /\ PartiallyLoaded

\* ------------------------------------------------------------ head claims
\* C11 as stated: in every forward pass that returns, both heads of every stage
\* cut their map into exactly 64 patches, whatever the frame side.
C11_AlwaysSixtyFourPatches ==
    Returned =>
        \A k \in 1..4 : last.ret.stages[k].patches = 64 /\ last.ret.stages[k].patches1 = 64

\* C11 amended: the heads are constructed for 64 patches ((image_size /
\* patch_size)^2 with sizes 128, 64, 32, 16 and patches 16, 8, 4, 2), and in a
\* forward pass that returns both heads of every stage cut their map into the
\* same number of patches, (H / 64)^2 for frame side H: 64 for the 512-sided
\* frames the heads are built for, 49 for 448-sided frames.
C11_PatchCountFollowsFrameSide ==
    /\ \A k \in 1..4 :
          /\ (conv_z_ref[k].image_size \div conv_z_ref[k].patch_size)
                * (conv_z_ref[k].image_size \div conv_z_ref[k].patch_size) = 64
          /\ (conv_z1_ref[k].image_size \div conv_z1_ref[k].patch_size)
                * (conv_z1_ref[k].image_size \div conv_z1_ref[k].patch_size) = 64
    /\ Returned =>
          /\ last.H % 64 = 0
          /\ \A k \in 1..4 :
                /\ last.ret.stages[k].patches = (last.H \div 64) * (last.H \div 64)
                /\ last.ret.stages[k].patches1 = (last.H \div 64) * (last.H \div 64)
          /\ last.H = 512 => \A k \in 1..4 : last.ret.stages[k].patches = 64

C11_Witness == Returned /\ last.H = 448 /\ last.ret.stages[4].patches = 49

\* ------------------------------------------------------------ gate claims
\* The positions of the calls of fn in a stage's calls.
CallsOf(calls, fn) == {i \in 1..Len(calls) : calls[i].fn = fn}

\* C12: in every forward pass with mode_idx 0 or 1 that gets through its four
\* stages, each stage calls its gate exactly twice, first on (stream-10 map,
\* stream-05 map), giving the stream-10 fused map, then on the two swapped,
\* giving the stream-05 fused map; both calls read the backbone maps of that
\* stage, never a fused map, and both come before every head call of the stage.
\* In a pass that raises inside a stage, the calls made are a prefix of that.
C12_GateCallStructure ==
    (Computed /\ last.ret.backbone # <<>>) =>
        \A k \in 1..Len(last.ret.calls) :
            LET c == last.ret.calls[k]
                gates == CallsOf(c, "convgru")
                heads == CallsOf(c, "conv_z_ref") \cup CallsOf(c, "conv_z1_ref")
                x10 == Val("x_image", k, <<last.args[1]>>)
                x05 == Val("x_image", k, <<last.args[2]>>)
            IN  /\ gates \subseteq {1, 2}
                /\ c[1].fn = "convgru" /\ c[1].args = <<x10, x05>>
                /\ \A i \in gates : \A j \in heads : i < j
                /\ (heads # {} \/ k <= last.ret.done) => gates = {1, 2}
                /\ gates = {1, 2} =>
                      /\ c[2].args = <<x05, x10>>
                      /\ \A i \in heads :
                            c[i].args[1] = IF i <= 5 THEN c[1].out ELSE c[2].out
                /\ \A i \in gates : \A j \in 1..2 :
                      c[i].args[j].kind = "x_image" /\ c[i].args[j].stage = k

C12_Witness ==
    /\ Returned
    /\ \A k \in 1..4 : Len(last.ret.calls[k]) = 8
    /\ last.ret.calls[3][2].args = << Val("x_image", 3, <<last.args[2]>>),
                                      Val("x_image", 3, <<last.args[1]>>) >>

\* The stages of the latest forward pass whose gate returned on both argument
\* orders.
GateDone(k) ==
    /\ Computed
    /\ k <= Len(last.ret.calls)
    /\ (Len(last.ret.calls[k]) >= 3 \/ k <= last.ret.done)

\* C13 as stated: the fused map of every stage has the shape of the backbone map
\* fed to the gate, with 64, 128, 256 and 512 channels for stages 1..4.
C13_GateKeepsShape ==
    \A k \in 1..4 :
        GateDone(k) =>
            /\ last.ret.stages[k].gru_side = last.ret.stages[k].feat_side
            /\ last.ret.stages[k].gru_channels = last.ret.stages[k].feat_channels
            /\ last.ret.stages[k].gru_channels = <<64, 128, 256, 512>>[k]

\* C13 amended: the fused map of every stage has the height and width of the
\* backbone map fed to the gate and 32 channels, the gate's hidden_dim and the
\* channel count both heads of the stage are built for; 64, 128, 256 and 512
\* are the channel counts of the gate's input, not of its output.
C13_GateKeepsSideGivesHiddenDim ==
    \A k \in 1..4 :
        /\ convgru[k].input_dim = <<64, 128, 256, 512>>[k]
        /\ GateDone(k) =>
              /\ last.ret.stages[k].gru_side = last.ret.stages[k].feat_side
              /\ last.ret.stages[k].feat_channels = convgru[k].input_dim
              /\ last.ret.stages[k].gru_channels = 32
              /\ last.ret.stages[k].gru_channels = conv_z_ref[k].channels
              /\ last.ret.stages[k].gru_channels = conv_z1_ref[k].channels
              /\ last.ret.stages[k].mask_channels = last.ret.stages[k].gru_channels

C13_Witness ==
    /\ Returned
    /\ GateDone(4)
    /\ last.ret.stages[4].feat_channels = 512
    /\ last.ret.stages[4].gru_channels = 32

\* --------------------------------------------------- concatenation claims
\* C14: in every forward pass with mode_idx 0 or 1 that gets through its four
\* stages, each stage-stream pair contributes 64 values, 32 from the
\* mask-conditioned head followed by 32 from the mask-free head; the eight pairs
\* are concatenated in the order stage 1 stream 10, stage 1 stream 05, ...,
\* stage 4 stream 05; the width is 512, the input width of quality_img_ref1,
\* whose output width 128 is the input width of quality_img_ref2, which gives
\* 1 value per frame; so the pass returns.
C14_ConcatenationWidth ==
    (Computed /\ last.ret.done = 4) =>
        /\ last.ret.kind = "tensor"
        /\ Len(last.ret.parts) = 8
        /\ \A i \in 1..8 :
              LET p == last.ret.parts[i]
              IN  /\ p.stage = (i + 1) \div 2
                  /\ p.stream = IF i % 2 = 1 THEN "10" ELSE "05"
                  /\ p.z_ref.kind = "z_ref" /\ p.z1_ref.kind = "z1_ref"
                  /\ p.z_ref.stage = p.stage /\ p.z1_ref.stage = p.stage
                  /\ p.z_ref.of[1] = last.args[IF i % 2 = 1 THEN 1 ELSE 2]
                  /\ p.widths = <<32, 32>>
                  /\ SumSeq(p.widths) = 64
        /\ last.ret.cat = SumSeq([i \in 1..8 |-> SumSeq(last.ret.parts[i].widths)])
        /\ last.ret.cat = 512
        /\ quality_img_ref1.in_features = 512
        /\ quality_img_ref1.out_features = 128
        /\ quality_img_ref2.in_features = 128
        /\ quality_img_ref2.out_features = 1

C14_Witness ==
    /\ Returned
    /\ last.ret.done = 4
    /\ last.ret.cat = 512
    /\ last.ret.parts[8].stage = 4 /\ last.ret.parts[8].stream = "05"

\* ------------------------------------------------------- symmetry claims
\* C16: for inputs of equal shape, the eight stage embeddings of
\* forward(A, B, maskA, maskB, m) are those of forward(B, A, maskB, maskA, m)
\* with the stream-10 and stream-05 slots of every stage exchanged, and per
\* stage both streams go through the same gate and the same two heads.
C16_StreamSwapSymmetry ==
    (Computed /\ last.ret.done = 4) =>
        LET a == last.args
            swapped == CatParts(a[2], a[1], a[4], a[3])
        IN  \A k \in 1..4 :
                /\ last.ret.parts[2 * k - 1].z_ref = swapped[2 * k].z_ref
                /\ last.ret.parts[2 * k - 1].z1_ref = swapped[2 * k].z1_ref
                /\ last.ret.parts[2 * k].z_ref = swapped[2 * k - 1].z_ref
                /\ last.ret.parts[2 * k].z1_ref = swapped[2 * k - 1].z1_ref
                /\ \A i \in 1..8 : last.ret.calls[k][i].stage = k
                /\ last.ret.calls[k][1].fn = last.ret.calls[k][2].fn
                /\ \A i \in 3..5 : last.ret.calls[k][i].fn = last.ret.calls[k][i + 3].fn

C16_Witness ==
    /\ Returned
    /\ last.args = <<"B", "A", "maskB", "maskA">>
    /\ last.ret.parts[1].z_ref = Val("z_ref", 1, <<"B", "A", "maskB">>)
    /\ last.ret.parts[2].z_ref = Val("z_ref", 1, <<"A", "B", "maskA">>)

\* ------------------------------------------------- initialisation claims
\* C15: after ResNet is constructed with zero_init_residual = True, the weight
\* of the last normalisation layer of every residual block of layer1..layer4
\* (bn3 of a Bottleneck, bn2 of a BasicBlock) is 0.
C15_ZeroInitResidual ==
    (last.op = "ResNet" /\ last.err = "ok" /\ last.zero_init_residual) =>
        \A k \in 1..4 : last.layers[k] >= 1 => model.bn_last_weight[k] = 0
====
